---- MODULE Spec2Model ----
(***************************************************************************)
(* RedisJSON2: one Redis key holding (or not holding) a RedisJSON document *)
(* and the JSON.* commands of src/src/lib.rs acting on it through the      *)
(* RedisJSON methods of src/src/redisjson.rs.                              *)
(*                                                                         *)
(* Text (paths, JSON strings, object keys) is a sequence of one-character  *)
(* strings, so that prefixes can be tested and paths parsed.  Messages of  *)
(* errors are strings, joined with \o.                                     *)
(***************************************************************************)
EXTENDS Integers, Sequences, FiniteSets, TLC

VARIABLES doc, last, steps, crashed

vars == <<doc, last, steps, crashed>>

(***************************************************************************)
(* Bounds of the model.                                                    *)
(***************************************************************************)
\* commands issued in one behaviour
MaxSteps == 2
\* ARRINSERT / ARRPOP indexes range over -MaxIdx .. MaxIdx
MaxIdx == 3
\* the longest raw path backward_path is given on its own
MaxLen == 4

(***************************************************************************)
(* serde_json::Value.  Every value is a record [t, v]; t is the variant.   *)
(* A Number keeps whether it is integral or floating (serde_json's N):     *)
(* 3 and 3.0 are different values.  An Object is the sequence of its       *)
(* entries [k, v] in the map's iteration order.                            *)
(***************************************************************************)
NullV == [t |-> "null", v |-> <<>>]
BoolV(b) == [t |-> "bool", v |-> b]
NumV(n, f) == [t |-> "num", v |-> [n |-> n, f |-> f]]
IntV(n) == NumV(n, FALSE)
StrV(s) == [t |-> "str", v |-> s]
ArrV(es) == [t |-> "arr", v |-> es]
ObjV(kvs) == [t |-> "obj", v |-> kvs]
KV(k, v) == [k |-> k, v |-> v]

\* the key holds no document
NoDoc == [t |-> "none", v |-> <<>>]

\* Value::take / Value::is_null
is_null(v) == v.t = "null"

value_name(value) ==
    CASE value.t = "null" -> "null"
      [] value.t = "bool" -> "boolean"
      [] value.t = "num"  -> "number"
      [] value.t = "str"  -> "string"
      [] value.t = "arr"  -> "array"
      [] value.t = "obj"  -> "object"

(***************************************************************************)
(* Text helpers.                                                           *)
(***************************************************************************)
RECURSIVE Str(_)
\* the string a character sequence spells
Str(s) == IF s = <<>> THEN "" ELSE Head(s) \o Str(Tail(s))

starts_with(s, c) == Len(s) >= 1 /\ s[1] = c

RECURSIVE Concat(_)
\* Iterator<String>::collect::<String>()
Concat(ss) == IF ss = <<>> THEN "" ELSE Head(ss) \o Concat(Tail(ss))

RECURSIVE Join(_)
\* "," between the elements
Join(ss) ==
    IF ss = <<>> THEN ""
    ELSE IF Len(ss) = 1 THEN ss[1]
    ELSE ss[1] \o "," \o Join(Tail(ss))

(***************************************************************************)
(* serde_json::to_string / Value::to_string: compact JSON text.            *)
(***************************************************************************)
RECURSIVE Serialize(_)
Serialize(v) ==
    CASE v.t = "null" -> "null"
      [] v.t = "bool" -> (IF v.v THEN "true" ELSE "false")
      [] v.t = "num"  -> (IF v.v.f THEN ToString(v.v.n) \o ".0" ELSE ToString(v.v.n))
      [] v.t = "str"  -> "\"" \o Str(v.v) \o "\""
      [] v.t = "arr"  -> "[" \o Join([i \in 1..Len(v.v) |-> Serialize(v.v[i])]) \o "]"
      [] v.t = "obj"  ->
            "{" \o Join([i \in 1..Len(v.v) |->
                           "\"" \o Str(v.v[i].k) \o "\":" \o Serialize(v.v[i].v)]) \o "}"

(***************************************************************************)
(* backward_path: RedisJSON 1.x paths to JSONPath.                         *)
(***************************************************************************)
\* backward_path without the case of ".": "." becomes "$."
backward_path_dot_as_prefix(path) ==
    IF ~starts_with(path, "$")
    THEN IF starts_with(path, ".") THEN <<"$">> \o path
         ELSE <<"$", ".">> \o path
    ELSE path

backward_path(path) ==
    IF ~starts_with(path, "$")
    THEN IF path = <<".">> THEN <<"$">>
         ELSE IF starts_with(path, ".") THEN <<"$">> \o path
         ELSE <<"$", ".">> \o path
    ELSE path

(***************************************************************************)
(* The path evaluator (crate jsonpath_lib), for the selectors the model    *)
(* uses: $, .key, .*, [n], [*].  A parsed path is a sequence of tokens.    *)
(***************************************************************************)
Letters == {"a", "b", "c", "d"}
Digits == <<"0", "1", "2", "3">>

KeyTok(k) == [t |-> "key", v |-> k]
IdxTok(i) == [t |-> "idx", v |-> i]
AllTok == [t |-> "all", v |-> <<>>]

DigitVal(c) == (CHOOSE i \in 1..Len(Digits) : Digits[i] = c) - 1
IsDigit(c) == \E i \in 1..Len(Digits) : Digits[i] = c

RECURSIVE LetterRun(_)
\* the longest prefix of letters
LetterRun(s) ==
    IF s # <<>> /\ Head(s) \in Letters THEN <<Head(s)>> \o LetterRun(Tail(s)) ELSE <<>>

Drop(s, n) == SubSeq(s, n + 1, Len(s))

PathOk(toks) == [ok |-> TRUE, toks |-> toks]
PathErr == [ok |-> FALSE, toks |-> <<>>]

RECURSIVE ParseSegs(_)
ParseSegs(s) ==
    IF s = <<>> THEN PathOk(<<>>)
    ELSE IF s[1] = "." /\ Len(s) >= 2
    THEN IF s[2] = "*"
         THEN LET r == ParseSegs(Drop(s, 2))
              IN  IF r.ok THEN PathOk(<<AllTok>> \o r.toks) ELSE PathErr
         ELSE LET k == LetterRun(Tail(s))
                  r == ParseSegs(Drop(s, 1 + Len(k)))
              IN  IF k # <<>> /\ r.ok THEN PathOk(<<KeyTok(k)>> \o r.toks) ELSE PathErr
    ELSE IF s[1] = "[" /\ Len(s) >= 3 /\ s[3] = "]"
    THEN LET r == ParseSegs(Drop(s, 3))
         IN  IF s[2] = "*" /\ r.ok THEN PathOk(<<AllTok>> \o r.toks)
             ELSE IF IsDigit(s[2]) /\ r.ok THEN PathOk(<<IdxTok(DigitVal(s[2]))>> \o r.toks)
             ELSE PathErr
    ELSE PathErr

\* SelectorMut::str_path / the parse in jsonpath_lib::select
str_path(path) ==
    IF starts_with(path, "$") THEN ParseSegs(Tail(path)) ELSE PathErr

(***************************************************************************)
(* A location in a tree: the steps from the root; a step is an object key  *)
(* or a 0-based array index.                                               *)
(***************************************************************************)
KStep(k) == [t |-> "k", v |-> k]
IStep(i) == [t |-> "i", v |-> i]

RECURSIVE FlatSeq(_)
FlatSeq(ss) == IF ss = <<>> THEN <<>> ELSE Head(ss) \o FlatSeq(Tail(ss))

RECURSIVE Select(_, _, _)
\* the locations a token sequence matches below `tree`, in document order
Select(tree, toks, loc) ==
    IF toks = <<>> THEN <<loc>>
    ELSE LET tk == Head(toks)
             rest == Tail(toks)
         IN CASE tree.t = "obj" /\ tk.t \in {"key", "all"} ->
                   FlatSeq([i \in 1..Len(tree.v) |->
                              IF tk.t = "all" \/ tree.v[i].k = tk.v
                              THEN Select(tree.v[i].v, rest, Append(loc, KStep(tree.v[i].k)))
                              ELSE <<>>])
              [] tree.t = "arr" /\ tk.t \in {"idx", "all"} ->
                   FlatSeq([i \in 1..Len(tree.v) |->
                              IF tk.t = "all" \/ i - 1 = tk.v
                              THEN Select(tree.v[i], rest, Append(loc, IStep(i - 1)))
                              ELSE <<>>])
              [] OTHER -> <<>>

\* the position of key k among the entries of an object
KeyPos(kvs, k) == CHOOSE i \in 1..Len(kvs) : kvs[i].k = k

RECURSIVE GetAt(_, _)
GetAt(tree, loc) ==
    IF loc = <<>> THEN tree
    ELSE IF Head(loc).t = "k"
    THEN GetAt(tree.v[KeyPos(tree.v, Head(loc).v)].v, Tail(loc))
    ELSE GetAt(tree.v[Head(loc).v + 1], Tail(loc))

RECURSIVE SetAt(_, _, _)
SetAt(tree, loc, new) ==
    IF loc = <<>> THEN new
    ELSE IF Head(loc).t = "k"
    THEN LET i == KeyPos(tree.v, Head(loc).v)
         IN  ObjV([tree.v EXCEPT ![i] = KV(tree.v[i].k, SetAt(tree.v[i].v, Tail(loc), new))])
    ELSE LET i == Head(loc).v + 1
         IN  ArrV([tree.v EXCEPT ![i] = SetAt(tree.v[i], Tail(loc), new)])

(***************************************************************************)
(* Result<T, Error> of a RedisJSON method or of a transform; "panic" is a  *)
(* Rust panic raised while the method runs.                                *)
(***************************************************************************)
Ok(x) == [k |-> "ok", v |-> x, msg |-> ""]
Err(m) == [k |-> "err", v |-> <<>>, msg |-> m]
Panicked == [k |-> "panic", v |-> <<>>, msg |-> ""]

\* the messages of the errors
MsgParse == "JSON parse error"
MsgPath == "JsonPathError::Path"
MsgNoPath == "ERR path does not exist"
MsgOutOfBounds == "ERR index out of bounds"
MsgNoKey == "ERR could not perform this operation on a key that doesn't exist"
MsgNewAtRoot == "ERR new objects must be created at the root"
MsgMissingPath(path) == "ERR missing path " \o Str(path)
MsgWrongTypeOfPath == "ERR wrong type of path value"
MsgWrongType(expected, value) ==
    "ERR wrong type of path value - expected a " \o expected \o " but found "
        \o value_name(value)

(***************************************************************************)
(* A JSON text handed to the parser: well-formed text of a value, or text  *)
(* serde_json rejects.                                                     *)
(***************************************************************************)
Text(value) == [wf |-> TRUE, value |-> value]
BadText == [wf |-> FALSE, value |-> NullV]

\* RedisJSON::parse_str with Format::JSON
parse_str(data) == IF data.wf THEN Ok(data.value) ELSE Err(MsgParse)

\* RedisJSON::from_str: the document whose data is the parsed value
from_str(data) == parse_str(data)

(***************************************************************************)
(* The transforms (closures) handed to replace_with.  A closure is a kind  *)
(* and the variables it captured by mutable reference, st; a call returns  *)
(* the Result and the captured variables afterwards.                       *)
(***************************************************************************)
FOk(v, st) == [k |-> "ok", v |-> v, msg |-> "", st |-> st]
FErr(m, st) == [k |-> "err", v |-> <<>>, msg |-> m, st |-> st]
FPanic(st) == [k |-> "panic", v |-> <<>>, msg |-> "", st |-> st]

Abs(i) == IF i < 0 THEN -i ELSE i
Min(a, b) == IF a < b THEN a ELSE b
Max(a, b) == IF a > b THEN a ELSE b

RECURSIVE Pow(_, _)
Pow(a, b) == IF b = 0 THEN 1 ELSE a * Pow(a, b - 1)

\* the three functions json_num_op is called with; operands are integral
\* and exponents natural, so every result is a finite integral f64
incrby(num1, num2) == num1 + num2
multby(num1, num2) == num1 * num2
powby(num1, num2) == Pow(num1, num2)

NumFun(op, num1, num2) ==
    CASE op = "NUMINCRBY" -> incrby(num1, num2)
      [] op = "NUMMULTBY" -> multby(num1, num2)
      [] op = "NUMPOWBY"  -> powby(num1, num2)

\* the closure of json_num_op; st = [op, number].  Number::as_f64 then
\* Number::from_f64: the new number is a float, whatever the old one was
num_op_fun(value, st) ==
    IF value.t = "num"
    THEN FOk(NumV(NumFun(st.op, value.v.n, st.number), TRUE), st)
    ELSE FErr(MsgWrongType("number", value), st)

\* the closure of json_str_append; st = [json, res]
str_append_fun(value, st) ==
    IF value.t = "str"
    THEN LET curr_clone == value.v \o st.json
         IN  FOk(StrV(curr_clone), [st EXCEPT !.res = Len(curr_clone)])
    ELSE FErr(MsgWrongType("string", value), st)

RECURSIVE append_loop(_, _, _)
\* the loop of json_arr_append: push json, then take the next argument
append_loop(curr_clone, json, args) ==
    LET value == parse_str(json)
    IN  IF value.k # "ok"
        THEN [k |-> "err", msg |-> value.msg, arr |-> curr_clone, json |-> json, args |-> args]
        ELSE IF args # <<>>
        THEN append_loop(Append(curr_clone, value.v), Head(args), Tail(args))
        ELSE [k |-> "ok", msg |-> "", arr |-> Append(curr_clone, value.v),
              json |-> json, args |-> args]

\* json_arr_append after its loop r: res = curr_clone.len(), or the `?`
append_end(st, r) ==
    IF r.k = "ok"
    THEN FOk(ArrV(r.arr), [json |-> r.json, args |-> r.args, res |-> Len(r.arr)])
    ELSE FErr(r.msg, [json |-> r.json, args |-> r.args, res |-> st.res])

\* the closure of json_arr_append; st = [json, args, res]
arr_append_fun(value, st) ==
    IF value.t = "arr"
    THEN append_end(st, append_loop(value.v, st.json, st.args))
    ELSE FErr(MsgWrongType("string", value), st)

\* Vec::insert(index, element), index 0-based and index <= len
VecInsert(vec, index, element) ==
    SubSeq(vec, 1, index) \o <<element>> \o SubSeq(vec, index + 1, Len(vec))

\* Vec::remove(index)
VecRemove(vec, index) == SubSeq(vec, 1, index) \o SubSeq(vec, index + 2, Len(vec))

RECURSIVE insert_loop(_, _, _, _)
\* the loop of json_arr_insert: insert json at index, advance index, next argument
insert_loop(res, index, json, args) ==
    LET value == parse_str(json)
    IN  IF value.k # "ok"
        THEN [k |-> "err", msg |-> value.msg, arr |-> res, index |-> index,
              json |-> json, args |-> args]
        ELSE IF args # <<>>
        THEN insert_loop(VecInsert(res, index, value.v), index + 1, Head(args), Tail(args))
        ELSE [k |-> "ok", msg |-> "", arr |-> VecInsert(res, index, value.v),
              index |-> index + 1, json |-> json, args |-> args]

\* json_arr_insert after its loop r
insert_end(r) ==
    IF r.k = "ok"
    THEN FOk(ArrV(r.arr), [index |-> r.index, json |-> r.json, args |-> r.args])
    ELSE FErr(r.msg, [index |-> r.index, json |-> r.json, args |-> r.args])

\* the closure of json_arr_insert; st = [index, json, args]
arr_insert_fun(value, st) ==
    IF value.t = "arr"
    THEN LET len == Len(value.v)
         IN  IF Abs(st.index) >= len
             THEN FErr(MsgOutOfBounds, st)
             ELSE insert_end(insert_loop(value.v,
                                         IF st.index < 0 THEN len + st.index ELSE st.index,
                                         st.json, st.args))
    ELSE FErr(MsgWrongType("string", value), st)

\* arr_pop_fun without cmp::min: an index past the end is not clamped
arr_pop_fun_no_clamp(value, st) ==
    IF value.t = "arr"
    THEN LET len == Len(value.v)
             index == IF st.index < 0 THEN len + st.index ELSE st.index
             st1 == [st EXCEPT !.index = index]
         IN  IF index >= len \/ index < 0
             THEN FErr(MsgOutOfBounds, st1)
             ELSE FOk(ArrV(VecRemove(value.v, index)), [st1 EXCEPT !.res = value.v[index + 1]])
    ELSE FErr(MsgWrongType("array", value), st)

\* the closure of json_arr_pop; st = [index, res]
arr_pop_fun(value, st) ==
    IF value.t = "arr"
    THEN LET len == Len(value.v)
             clamped == Min(st.index, len - 1)
             index == IF clamped < 0 THEN len + clamped ELSE clamped
             st1 == [st EXCEPT !.index = index]
         IN  IF index >= len \/ index < 0
             THEN FErr(MsgOutOfBounds, st1)
             ELSE FOk(ArrV(VecRemove(value.v, index)), [st1 EXCEPT !.res = value.v[index + 1]])
    ELSE FErr(MsgWrongType("array", value), st)

\* the closure of json_arr_trim; st = [start, stop, overflow_checks].
\* curr.len() - 1 on an empty array overflows usize: a panic in a build with
\* overflow checks, usize::MAX (so stop stays as given) in one without; the
\* slice curr[start..stop] panics when stop > len
arr_trim_fun(value, st) ==
    IF value.t = "arr"
    THEN LET len == Len(value.v)
             start0 == Max(st.start, 0)
             stop == IF len = 0 THEN st.stop ELSE Min(st.stop, len - 1)
             start == Min(stop, start0)
             st1 == [st EXCEPT !.start = start, !.stop = stop]
         IN  IF (len = 0 /\ st.overflow_checks) \/ stop > len
             THEN FPanic(st)
             ELSE FOk(ArrV(SubSeq(value.v, start + 1, stop)), st1)
    ELSE FErr(MsgWrongType("array", value), st)

\* the transform value_op was given
fun(fkind, value, fst) ==
    CASE fkind = "num"        -> num_op_fun(value, fst)
      [] fkind = "str_append" -> str_append_fun(value, fst)
      [] fkind = "arr_append" -> arr_append_fun(value, fst)
      [] fkind = "arr_insert" -> arr_insert_fun(value, fst)
      [] fkind = "arr_pop"    -> arr_pop_fun(value, fst)
      [] fkind = "arr_trim"   -> arr_trim_fun(value, fst)

\* one call of the transform, as value_op's log of calls keeps it
Call(arg, r) == [arg |-> arg, k |-> r.k, out |-> r.v, msg |-> r.msg]

\* collected without unwrap_or(value): a failed node is left Null
collected_null_on_err(value, st, r) ==
    LET st1 == [st EXCEPT !.fst = r.st, !.calls = Append(@, Call(value, r))]
    IN  CASE r.k = "ok" -> [val |-> r.v, st |-> [st1 EXCEPT !.result = r.v]]
          [] r.k = "err" ->
               [val |-> NullV, st |-> [st1 EXCEPT !.errors = Append(@, r.msg)]]
          [] r.k = "panic" -> [val |-> value, st |-> [st1 EXCEPT !.panicked = TRUE]]

\* collected without result = new_value.clone(): result stays Null
collected_stale_result(value, st, r) ==
    LET st1 == [st EXCEPT !.fst = r.st, !.calls = Append(@, Call(value, r))]
    IN  CASE r.k = "ok" -> [val |-> r.v, st |-> st1]
          [] r.k = "err" ->
               [val |-> value, st |-> [st1 EXCEPT !.errors = Append(@, r.msg)]]
          [] r.k = "panic" -> [val |-> value, st |-> [st1 EXCEPT !.panicked = TRUE]]

\* collect_fun of value_op once fun returned r: the new value becomes the
\* result and the node, or the error is pushed and the node keeps its value
collected(value, st, r) ==
    LET st1 == [st EXCEPT !.fst = r.st, !.calls = Append(@, Call(value, r))]
    IN  CASE r.k = "ok" -> [val |-> r.v, st |-> [st1 EXCEPT !.result = r.v]]
          [] r.k = "err" ->
               [val |-> value, st |-> [st1 EXCEPT !.errors = Append(@, r.msg)]]
          [] r.k = "panic" -> [val |-> value, st |-> [st1 EXCEPT !.panicked = TRUE]]

\* collect_fun of value_op; st = [fkind, fst, errors, result, calls, panicked].
\* After a panic nothing more runs
collect_fun(value, st) ==
    IF st.panicked THEN [val |-> value, st |-> st]
    ELSE collected(value, st, fun(st.fkind, value, st.fst))

\* the closure of set_value; st = [json, replaced]
set_value_fun(value, st) == [val |-> st.json, st |-> [st EXCEPT !.replaced = TRUE]]

\* delete_path's closure without the is_null test: every match counts
delete_path_fun_counts_all(value, st) ==
    [val |-> NullV, st |-> [st EXCEPT !.deleted = @ + 1]]

\* the closure of delete_path; st = [deleted]
delete_path_fun(value, st) ==
    [val |-> NullV,
     st |-> [st EXCEPT !.deleted = IF ~is_null(value) THEN @ + 1 ELSE @]]

CallFun(kind, value, st) ==
    CASE kind = "set"     -> set_value_fun(value, st)
      [] kind = "delete"  -> delete_path_fun(value, st)
      [] kind = "collect" -> collect_fun(value, st)

RECURSIVE ReplaceEach(_, _, _, _)
RECURSIVE Replaced(_, _, _, _)
\* the transform applied at one matched location after the other
ReplaceEach(tree, locs, kind, st) ==
    IF locs = <<>> THEN [tree |-> tree, st |-> st]
    ELSE Replaced(tree, locs, kind, CallFun(kind, GetAt(tree, Head(locs)), st))

\* the node at the first location takes what the transform returned
Replaced(tree, locs, kind, r) ==
    ReplaceEach(SetAt(tree, Head(locs), r.val), Tail(locs), kind, r.st)

\* SelectorMut::replace_with on a parsed path
selector_replace_with(value, toks, kind, st) ==
    ReplaceEach(value, Select(value, toks, <<>>), kind, st)

\* jsonpath_lib::replace_with(value, path, fun)
replace_with(value, path, kind, st) ==
    IF ~str_path(path).ok THEN [ok |-> FALSE, tree |-> NullV, st |-> st]
    ELSE [ok |-> TRUE] @@ selector_replace_with(value, str_path(path).toks, kind, st)

\* jsonpath_lib::select(value, path)
select(value, path) ==
    LET p == str_path(path)
    IN  IF ~p.ok THEN Err(MsgPath)
        ELSE LET locs == Select(value, p.toks, <<>>)
             IN  Ok([i \in 1..Len(locs) |-> GetAt(value, locs[i])])

(***************************************************************************)
(* The methods of RedisJSON.  self_data is self.data before the call; a    *)
(* method that mutates returns self.data after it with its Result.         *)
(***************************************************************************)
\* RedisJSON::set_value.  self.data.take() leaves Null in self.data until
\* the rebuilt tree is assigned; the `?` on a path error returns before that
\* set_value without the test of replaced: Ok whatever matched
set_value_end_ignores_replaced(path, r) ==
    IF ~r.ok THEN [data |-> NullV, res |-> Err(MsgPath)]
    ELSE [data |-> r.tree, res |-> Ok(<<>>)]

\* set_value after jsonpath_lib::replace_with returned r
set_value_end(path, r) ==
    IF ~r.ok THEN [data |-> NullV, res |-> Err(MsgPath)]
    ELSE IF r.st.replaced THEN [data |-> r.tree, res |-> Ok(<<>>)]
    ELSE [data |-> r.tree, res |-> Err(MsgMissingPath(path))]

set_value(self_data, data, path) ==
    LET json == parse_str(data)
    IN  IF json.k # "ok" THEN [data |-> self_data, res |-> Err(json.msg)]
        ELSE IF path = <<"$">> THEN [data |-> json.v, res |-> Ok(<<>>)]
        ELSE set_value_end(path, replace_with(self_data, path, "set",
                                              [json |-> json.v, replaced |-> FALSE]))

\* RedisJSON::delete_path: the tree jsonpath_lib::replace_with rebuilt is
\* assigned to self.data, unless the `?` returned on a path error
delete_path_end(r) ==
    IF ~r.ok THEN [data |-> NullV, res |-> Err(MsgPath)]
    ELSE [data |-> r.tree, res |-> Ok(r.st.deleted)]

delete_path(self_data, path) ==
    delete_path_end(replace_with(self_data, path, "delete", [deleted |-> 0]))

\* RedisJSON::get_doc
get_doc(self_data, path) ==
    LET results == select(self_data, path)
    IN  IF results.k # "ok" THEN results
        ELSE IF results.v # <<>> THEN Ok(results.v[1])
        ELSE Err(MsgNoPath)

\* RedisJSON::to_string with Format::JSON
to_string(self_data, path) ==
    LET results == get_doc(self_data, path)
    IN  IF results.k # "ok" THEN results ELSE Ok(Serialize(results.v))

\* str_len, arr_len, obj_len once get_doc returned d: the length of the
\* node when it is of the variant asked for (as_str, as_array, as_object)
len_of(d, variant) ==
    IF d.k # "ok" THEN d
    ELSE IF d.v.t = variant THEN Ok(Len(d.v.v))
    ELSE Err(MsgWrongTypeOfPath)

\* RedisJSON::str_len / arr_len / obj_len
str_len(self_data, path) == len_of(get_doc(self_data, path), "str")
arr_len(self_data, path) == len_of(get_doc(self_data, path), "arr")
obj_len(self_data, path) == len_of(get_doc(self_data, path), "obj")

\* obj_keys once get_doc returned d
keys_of(d) ==
    IF d.k # "ok" THEN d
    ELSE IF d.v.t = "obj" THEN Ok([i \in 1..Len(d.v.v) |-> d.v.v[i].k])
    ELSE Err(MsgWrongTypeOfPath)

\* RedisJSON::obj_keys
obj_keys(self_data, path) == keys_of(get_doc(self_data, path))

\* the scan of arr_index over the array arr, v being the parsed scalar.
\* arr.len() - 1 on an empty array overflows usize: a panic in a build with
\* overflow checks; without them end stays as given and the inclusive
\* slice arr[start..=end] panics, no index being inside an empty array
arr_index_scan(arr, v, start, end) ==
    IF v.k # "ok" THEN Err(v.msg)
    ELSE IF v.v.t \in {"arr", "obj"} THEN Ok(-1)
    ELSE IF Len(arr) = 0 THEN Panicked
    ELSE LET end1 == Min(end, Len(arr) - 1)
             start1 == Min(end1, Max(start, 0))
             hits == {i \in start1..end1 : arr[i + 1] = v.v}
         IN  IF hits = {} THEN Ok(-1)
             ELSE Ok(CHOOSE i \in hits : \A j \in hits : i <= j)

\* arr_index once get_doc returned d
arr_index_end(d, scalar, start, end) ==
    IF d.k # "ok" THEN d
    ELSE IF d.v.t = "arr" THEN arr_index_scan(d.v.v, parse_str(scalar), start, end)
    ELSE Ok(-1)

\* RedisJSON::arr_index
arr_index(self_data, path, scalar, start, end) ==
    arr_index_end(get_doc(self_data, path), scalar, start, end)

\* op_result failing when the transform was never called
op_result_no_match_fails(st) ==
    CASE st.panicked -> Panicked
      [] Len(st.errors) = 0 /\ st.calls = <<>> -> Err(MsgNoPath)
      [] Len(st.errors) = 0 -> Ok(st.result)
      [] Len(st.errors) = 1 -> Err(st.errors[1])
      [] OTHER -> Err(Concat(st.errors))

\* the Result value_op ends with
op_result(st) ==
    CASE st.panicked -> Panicked
      [] Len(st.errors) = 0 -> Ok(st.result)
      [] Len(st.errors) = 1 -> Err(st.errors[1])
      [] OTHER -> Err(Concat(st.errors))

\* RedisJSON::value_op; returns self.data, the Result and, in st, the
\* transform's captured variables and the log of its calls
value_op_end(r) ==
    [data |-> IF r.st.panicked THEN NullV ELSE r.val, res |-> op_result(r.st), st |-> r.st]

\* the tree SelectorMut rebuilt, as collect_fun's result is shaped
Rebuilt(rw) == [val |-> rw.tree, st |-> rw.st]

value_op(self_data, path, fkind, fst) ==
    LET st0 == [fkind |-> fkind, fst |-> fst, errors |-> <<>>, result |-> NullV,
                calls |-> <<>>, panicked |-> FALSE]
    IN  value_op_end(
            IF path = <<"$">>
            THEN collect_fun(self_data, st0)
            ELSE IF str_path(path).ok
            THEN Rebuilt(selector_replace_with(self_data, str_path(path).toks, "collect", st0))
            ELSE [val |-> self_data, st |-> [st0 EXCEPT !.errors = <<MsgPath>>]])

(***************************************************************************)
(* Replies of the commands (RedisResult).                                  *)
(***************************************************************************)
RNil == [t |-> "nil", v |-> <<>>]
RSimple(s) == [t |-> "simple", v |-> s]
RInt(n) == [t |-> "int", v |-> n]
RStr(s) == [t |-> "str", v |-> s]
RVal(v) == [t |-> "value", v |-> v]
RArr(es) == [t |-> "array", v |-> es]

\* REDIS_OK
REDIS_OK == Ok(RSimple("OK"))

\* `?` on a Result, and .into() of what it holds
Reply(res, v) == IF res.k = "ok" THEN Ok(v) ELSE res

(***************************************************************************)
(* The inputs of the commands.                                             *)
(***************************************************************************)
DocAB == ObjV(<<KV(<<"a">>, IntV(1)), KV(<<"b">>, ArrV(<<IntV(1), IntV(2), IntV(3)>>))>>)
DocArrays == ObjV(<<KV(<<"a">>, ArrV(<<IntV(1)>>)), KV(<<"b">>, ArrV(<<IntV(2), IntV(3)>>))>>)
DocMixed == ObjV(<<KV(<<"a">>, StrV(<<"x">>)), KV(<<"b">>, NullV), KV(<<"c">>, IntV(2))>>)
DocEmptyArr == ArrV(<<>>)
DocNum == IntV(7)

\* the values JSON.SET is given
Docs == {DocAB, DocArrays, DocMixed, DocEmptyArr, DocNum}

RawPaths == { <<"$">>, <<".">>, <<"a">>, <<"$", ".", "b">>, <<"$", ".", "*">>,
              <<"$", ".", "c">>, <<"$", "[">>, <<"$", ".", "b", "[", "1", "]">> }

SetPayloads == {Text(d) : d \in Docs} \cup {BadText}
SetOptions == {"None", "NotExists", "AlreadyExists"}
NumOps == {"NUMINCRBY", "NUMMULTBY", "NUMPOWBY"}
NumOperands == {2, 3}
StrArgs == { <<"y">> }
JsonArgs == { <<Text(IntV(8))>>, <<Text(IntV(8)), Text(IntV(9))>> }
Indexes == (-MaxIdx)..MaxIdx
TrimArgs == 0..MaxIdx

\* usize::MAX, the end of ARRINDEX without an end; only ever compared
UsizeMax == 2147483646

\* the <json-scalar> of ARRINDEX: a scalar, an array literal, or no JSON
Scalars == {Text(IntV(2)), Text(ArrV(<<IntV(2)>>)), BadText}
ScanStarts == 0..MaxIdx
ScanEnds == (0..MaxIdx) \cup {UsizeMax}

\* the encoding versions a saved value is loaded with: an older one, and
\* JSON_TYPE_ENCODING_VERSION
EncVers == {1, 2}

\* i64::MAX, the index of ARRPOP without an index; only ever compared
I64Max == 2147483647

NoLast == [cmd |-> "", path |-> <<>>, pre |-> NoDoc, reply |-> Ok(RNil), op |-> "none",
           arg |-> <<>>, calls |-> <<>>]

Init ==
    /\ doc = NoDoc
    /\ last = NoLast
    /\ steps = 0
    /\ crashed = FALSE

\* every command: the server is up and the behaviour is not at its bound
Ready == ~crashed /\ steps < MaxSteps

\* what every command leaves behind
Done(cmd, path, reply, op, arg, calls) ==
    /\ last' = [cmd |-> cmd, path |-> path, pre |-> doc, reply |-> reply, op |-> op,
                arg |-> arg, calls |-> calls]
    /\ steps' = steps + 1
    /\ crashed' = (reply.k = "panic")

\* json_set once doc.set_value returned r
SetDone(path, arg, r) ==
    /\ doc' = r.data
    /\ Done("SET", path, Reply(r.res, RSimple("OK")), "set_value", arg, <<>>)

\* set_absent without the test of the path: the value is stored whatever
\* the path
set_absent_any_path(path, value, set_option, arg) ==
    IF set_option = "AlreadyExists"
    THEN doc' = doc /\ Done("SET", path, Ok(RNil), "none", arg, <<>>)
    ELSE LET d == parse_str(value)
         IN  IF d.k # "ok"
             THEN doc' = doc /\ Done("SET", path, Err(d.msg), "none", arg, <<>>)
             ELSE doc' = d.v /\ Done("SET", path, REDIS_OK, "none", arg, <<>>)

\* json_set when the key holds no document: nothing with XX, else the
\* parsed value is stored if the path is the root
set_absent(path, value, set_option, arg) ==
    IF set_option = "AlreadyExists"
    THEN doc' = doc /\ Done("SET", path, Ok(RNil), "none", arg, <<>>)
    ELSE LET d == parse_str(value)
         IN  IF d.k # "ok"
             THEN doc' = doc /\ Done("SET", path, Err(d.msg), "none", arg, <<>>)
             ELSE IF path = <<"$">>
             THEN doc' = d.v /\ Done("SET", path, REDIS_OK, "none", arg, <<>>)
             ELSE doc' = doc /\ Done("SET", path, Err(MsgNewAtRoot), "none", arg, <<>>)

\* JSON.SET <key> <path> <json> [NX | XX]
json_set ==
    \E raw \in RawPaths, value \in SetPayloads, set_option \in SetOptions :
        LET path == backward_path(raw)
            arg == [value |-> value, set_option |-> set_option]
        IN  /\ Ready
            /\ IF doc # NoDoc /\ set_option = "NotExists"
               THEN doc' = doc /\ Done("SET", path, Ok(RNil), "none", arg, <<>>)
               ELSE IF doc # NoDoc
               THEN SetDone(path, arg, set_value(doc, value, path))
               ELSE set_absent(path, value, set_option, arg)

\* json_del once doc.delete_path returned r
DelDone(cmd, path, r) ==
    /\ doc' = r.data
    /\ Done(cmd, path, Reply(r.res, RInt(r.res.v)), "delete_path", <<>>, <<>>)

\* JSON.DEL <key> [path], also registered as JSON.FORGET
json_del ==
    \E cmd \in {"DEL", "FORGET"}, raw \in RawPaths :
        LET path == backward_path(raw)
        IN  /\ Ready
            /\ IF doc = NoDoc
               THEN doc' = doc /\ Done(cmd, path, Ok(RInt(0)), "none", <<>>, <<>>)
               ELSE IF path = <<"$">>
               THEN doc' = NoDoc /\ Done(cmd, path, Ok(RInt(1)), "none", <<>>, <<>>)
               ELSE DelDone(cmd, path, delete_path(doc, path))

\* JSON.GET <key> [path], one path
json_get ==
    \E raw \in RawPaths :
        LET path == backward_path(raw)
        IN  /\ Ready
            /\ doc' = doc
            /\ IF doc = NoDoc
               THEN Done("GET", path, Ok(RNil), "none", <<>>, <<>>)
               ELSE LET r == to_string(doc, path)
                    IN  Done("GET", path, Reply(r, RStr(r.v)), "to_string", <<>>, <<>>)

\* json_rdb_load once from_str returned r: unwrap() panics on an Err, else
\* the boxed document is the key's value
RdbLoaded(arg, r) ==
    IF r.k = "ok"
    THEN doc' = r.v /\ Done("rdb_load", <<>>, Ok(RNil), "from_str", arg, <<>>)
    ELSE doc' = doc /\ Done("rdb_load", <<>>, Panicked, "from_str", arg, <<>>)

\* json_rdb_load: Redis loads a saved value of the type for the key (RDB
\* load, RESTORE); an encoding version below 2 panics
json_rdb_load ==
    \E encver \in EncVers, saved \in SetPayloads :
        LET arg == [encver |-> encver, value |-> saved]
        IN  /\ Ready
            /\ IF encver < 2
               THEN doc' = doc /\ Done("rdb_load", <<>>, Panicked, "none", arg, <<>>)
               ELSE RdbLoaded(arg, from_str(saved))

\* json_len: the reply of STRLEN, ARRLEN, OBJLEN once fun(&doc, &path)
\* returned r; nil when the key holds no document
json_len(cmd, path, op, r) ==
    /\ Ready
    /\ doc' = doc
    /\ IF doc = NoDoc
       THEN Done(cmd, path, Ok(RNil), "none", <<>>, <<>>)
       ELSE Done(cmd, path, Reply(r, RInt(r.v)), op, <<>>, <<>>)

\* JSON.STRLEN <key> [path]
json_str_len ==
    \E raw \in RawPaths :
        json_len("STRLEN", backward_path(raw), "str_len", str_len(doc, backward_path(raw)))

\* JSON.ARRLEN <key> [path]
json_arr_len ==
    \E raw \in RawPaths :
        json_len("ARRLEN", backward_path(raw), "arr_len", arr_len(doc, backward_path(raw)))

\* JSON.OBJLEN <key> [path]
json_obj_len ==
    \E raw \in RawPaths :
        json_len("OBJLEN", backward_path(raw), "obj_len", obj_len(doc, backward_path(raw)))

\* JSON.OBJKEYS <key> [path]
json_obj_keys ==
    \E raw \in RawPaths :
        LET path == backward_path(raw)
        IN  /\ Ready
            /\ doc' = doc
            /\ IF doc = NoDoc
               THEN Done("OBJKEYS", path, Ok(RNil), "none", <<>>, <<>>)
               ELSE LET r == obj_keys(doc, path)
                    IN  Done("OBJKEYS", path, Reply(r, RArr(r.v)), "obj_keys", <<>>, <<>>)

\* JSON.ARRINDEX <key> <path> <json-scalar> [start [stop]]
json_arr_index ==
    \E raw \in RawPaths, scalar \in Scalars, start \in ScanStarts, end \in ScanEnds :
        LET path == backward_path(raw)
            arg == [scalar |-> scalar, start |-> start, end |-> end]
        IN  /\ Ready
            /\ doc' = doc
            /\ IF doc = NoDoc
               THEN Done("ARRINDEX", path, Ok(RInt(-1)), "none", arg, <<>>)
               ELSE LET r == arr_index(doc, path, scalar, start, end)
                    IN  Done("ARRINDEX", path, Reply(r, RInt(r.v)), "arr_index", arg, <<>>)

\* a command built on value_op once doc.value_op returned r: what it replies
\* with when r is Ok is the closure's res (STRAPPEND, ARRAPPEND, ARRPOP) or
\* the Value of r
ValueOpDone(cmd, path, fkind, arg, r) ==
    LET v == CASE fkind \in {"str_append", "arr_append"} -> RInt(r.st.fst.res)
               [] fkind = "arr_pop" -> RStr(Serialize(r.st.fst.res))
               [] OTHER -> RVal(r.res.v)
    IN  /\ doc' = r.data
        /\ Done(cmd, path, Reply(r.res, v), "value_op", arg, r.st.calls)

\* the commands built on value_op: the key must hold a document
ValueOpCmd(cmd, path, fkind, fst, arg) ==
    IF doc = NoDoc
    THEN doc' = doc /\ Done(cmd, path, Err(MsgNoKey), "none", arg, <<>>)
    ELSE ValueOpDone(cmd, path, fkind, arg, value_op(doc, path, fkind, fst))

\* JSON.NUMINCRBY / JSON.NUMMULTBY / JSON.NUMPOWBY <key> <path> <number>
json_num_op ==
    \E op \in NumOps, raw \in RawPaths, number \in NumOperands :
        /\ Ready
        /\ ValueOpCmd(op, backward_path(raw), "num", [op |-> op, number |-> number],
                      [number |-> number])

\* JSON.STRAPPEND <key> [path] <json-string>
json_str_append ==
    \E with_path \in BOOLEAN, raw \in RawPaths, json \in StrArgs :
        /\ Ready
        /\ with_path \/ raw = <<"$">>
        /\ ValueOpCmd("STRAPPEND", IF with_path THEN backward_path(raw) ELSE <<"$">>,
                      "str_append", [json |-> json, res |-> 0], [json |-> json])

\* JSON.ARRAPPEND <key> <path> <json> [json ...]
json_arr_append ==
    \E raw \in RawPaths, jsons \in JsonArgs :
        /\ Ready
        /\ ValueOpCmd("ARRAPPEND", backward_path(raw), "arr_append",
                      [json |-> Head(jsons), args |-> Tail(jsons), res |-> 0],
                      [jsons |-> jsons])

\* JSON.ARRINSERT <key> <path> <index> <json> [json ...]
json_arr_insert ==
    \E raw \in RawPaths, index \in Indexes, jsons \in JsonArgs :
        /\ Ready
        /\ ValueOpCmd("ARRINSERT", backward_path(raw), "arr_insert",
                      [index |-> index, json |-> Head(jsons), args |-> Tail(jsons)],
                      [index |-> index, jsons |-> jsons])

\* JSON.ARRPOP <key> [path [index]]
json_arr_pop ==
    \E with_path \in BOOLEAN, raw \in RawPaths, index \in Indexes \cup {I64Max} :
        /\ Ready
        /\ with_path \/ (raw = <<"$">> /\ index = I64Max)
        /\ ValueOpCmd("ARRPOP", IF with_path THEN backward_path(raw) ELSE <<"$">>,
                      "arr_pop", [index |-> index, res |-> NullV], [index |-> index])

\* JSON.ARRTRIM <key> <path> <start> <stop>; the build has overflow checks or not
json_arr_trim ==
    \E raw \in RawPaths, start \in TrimArgs, stop \in TrimArgs, overflow_checks \in BOOLEAN :
        /\ Ready
        /\ ValueOpCmd("ARRTRIM", backward_path(raw), "arr_trim",
                      [start |-> start, stop |-> stop, overflow_checks |-> overflow_checks],
                      [start |-> start, stop |-> stop])

Next ==
    \/ json_set
    \/ json_del
    \/ json_get
    \/ json_str_len
    \/ json_arr_len
    \/ json_obj_len
    \/ json_obj_keys
    \/ json_arr_index
    \/ json_num_op
    \/ json_str_append
    \/ json_arr_append
    \/ json_arr_insert
    \/ json_arr_pop
    \/ json_arr_trim
    \/ json_rdb_load

Spec == Init /\ [][Next]_vars

(***************************************************************************)
(* backward_path on its own: any raw path of up to MaxLen characters is    *)
(* normalized, and what it returned is normalized again.                   *)
(***************************************************************************)
PathChars == {"$", ".", "a"}
AnyPaths == UNION {[1..n -> PathChars] : n \in 0..MaxLen}

NormInit ==
    /\ doc = NoDoc
    /\ \E raw \in AnyPaths : last = [NoLast EXCEPT !.path = raw, !.arg = raw]
    /\ steps = 0
    /\ crashed = FALSE

\* path = backward_path(path)
Normalize ==
    /\ Ready
    /\ last' = [last EXCEPT !.path = backward_path(last.path), !.cmd = "backward_path"]
    /\ steps' = steps + 1
    /\ UNCHANGED <<doc, crashed>>

NormSpec == NormInit /\ [][Normalize]_vars

(***************************************************************************)
(* What the properties are stated with.  last holds the latest command:    *)
(* its normalized path, the document before it (pre), its reply, the       *)
(* RedisJSON method it called (op) and, for value_op, the calls of the     *)
(* transform.                                                              *)
(***************************************************************************)
\* a Result is Ok holding x / is the Error with message m
IsOk(r, x) == r.k = "ok" /\ r.v = x
IsErr(r, m) == r.k = "err" /\ r.msg = m

WellFormed(path) == str_path(path).ok
NonRoot(path) == path # <<"$">>

\* the locations path matches in tree, in order; none when it is malformed
Locs(tree, path) ==
    IF WellFormed(path) THEN Select(tree, str_path(path).toks, <<>>) ELSE <<>>

IsPrefix(a, b) == Len(a) <= Len(b) /\ SubSeq(b, 1, Len(a)) = a

RECURSIVE AllLocs(_, _)
\* every location of a tree
AllLocs(tree, loc) ==
    {loc} \cup
    (IF tree.t = "obj"
     THEN UNION {AllLocs(tree.v[i].v, Append(loc, KStep(tree.v[i].k))) : i \in 1..Len(tree.v)}
     ELSE IF tree.t = "arr"
     THEN UNION {AllLocs(tree.v[i], Append(loc, IStep(i - 1))) : i \in 1..Len(tree.v)}
     ELSE {})

RECURSIVE HasLoc(_, _)
HasLoc(tree, loc) ==
    IF loc = <<>> THEN TRUE
    ELSE IF Head(loc).t = "k"
    THEN /\ tree.t = "obj"
         /\ \E i \in 1..Len(tree.v) :
               tree.v[i].k = Head(loc).v /\ HasLoc(tree.v[i].v, Tail(loc))
    ELSE /\ tree.t = "arr"
         /\ Head(loc).v < Len(tree.v)
         /\ HasLoc(tree.v[Head(loc).v + 1], Tail(loc))

\* the variant of a node and, of a container, its keys or its length
Shape(v) ==
    IF v.t = "obj" THEN [t |-> "obj", s |-> [i \in 1..Len(v.v) |-> v.v[i].k]]
    ELSE IF v.t = "arr" THEN [t |-> "arr", s |-> <<Len(v.v)>>]
    ELSE [t |-> v.t, s |-> <<>>]

Writes == {"set_value", "delete_path", "value_op"}
IsErrCall(c) == c.k = "err"
IsOkCall(c) == c.k = "ok"
CallMsgs(calls) == [i \in 1..Len(calls) |-> calls[i].msg]

\* the latest command called value_op with a well-formed non-root path that
\* matched at least one node, and value_op returned
C1_Case ==
    /\ last.op = "value_op"
    /\ last.reply.k # "panic"
    /\ NonRoot(last.path)
    /\ Locs(last.pre, last.path) # <<>>

\* C1: value_op on a non-root path matching n >= 1 nodes calls the transform
\* on every match, in order; a match whose call succeeded holds its output,
\* one whose call failed holds its original value; the call succeeds iff no
\* transform failed, returns that error when exactly one failed, and one
\* error with the concatenated messages when several failed.
C1_ValueOpCollects ==
    C1_Case =>
        LET locs == Locs(last.pre, last.path)
            failed == SelectSeq(last.calls, IsErrCall)
        IN  /\ Len(last.calls) = Len(locs)
            /\ \A i \in 1..Len(locs) :
                  /\ last.calls[i].arg = GetAt(last.pre, locs[i])
                  /\ GetAt(doc, locs[i]) =
                        IF last.calls[i].k = "ok" THEN last.calls[i].out
                        ELSE GetAt(last.pre, locs[i])
            /\ (last.reply.k = "ok") <=> (failed = <<>>)
            /\ Len(failed) = 1 => IsErr(last.reply, failed[1].msg)
            /\ Len(failed) > 1 => IsErr(last.reply, Concat(CallMsgs(failed)))

\* a call over three matches of which two failed and one succeeded
C1_Witness ==
    /\ C1_Case
    /\ Len(SelectSeq(last.calls, IsErrCall)) = 2
    /\ Len(SelectSeq(last.calls, IsOkCall)) = 1
    /\ last.reply.k = "err"
    /\ doc # last.pre

\* the nodes a write with last.path may change: the matched ones
Unrelated(loc, locs) ==
    \A i \in 1..Len(locs) : ~IsPrefix(locs[i], loc) /\ ~IsPrefix(loc, locs[i])
NotBelowMatch(loc, locs) == \A i \in 1..Len(locs) : ~IsPrefix(locs[i], loc)

\* C2: after a write with path p (set_value, delete_path, value_op) every
\* node that is neither matched by p nor an ancestor or descendant of a
\* match has the same value at the same location, and every container that
\* is not matched (or below a match) keeps its keys or its length.
C2_OnlyMatchedChange ==
    (last.op \in Writes /\ last.reply.k # "panic") =>
        LET locs == Locs(last.pre, last.path)
        IN  \A loc \in AllLocs(last.pre, <<>>) :
               /\ Unrelated(loc, locs) =>
                     HasLoc(doc, loc) /\ GetAt(doc, loc) = GetAt(last.pre, loc)
               /\ NotBelowMatch(loc, locs) =>
                     HasLoc(doc, loc) /\ Shape(GetAt(doc, loc)) = Shape(GetAt(last.pre, loc))

\* C3: a write whose path is malformed or matches at most one node and that
\* returns an error leaves the tree as it was before the call.
C3_ErrorLeavesTree ==
    (/\ last.op \in Writes
     /\ last.reply.k = "err"
     /\ Len(Locs(last.pre, last.path)) <= 1) => doc = last.pre

\* the latest command called set_value with a well-formed payload
C4_Case == last.op = "set_value" /\ last.arg.value.wf

\* C4: set_value with a well-formed payload: at $ it succeeds and the tree
\* becomes the payload; at a well-formed non-root path it fails, with the
\* missing-path error and the tree unchanged, exactly when the path matches
\* no node, and otherwise succeeds with every matched node equal to the
\* payload.
C4_SetAtPath ==
    C4_Case =>
        LET json == last.arg.value.value
            locs == Locs(last.pre, last.path)
        IN  IF ~NonRoot(last.path)
            THEN IsOk(last.reply, RSimple("OK")) /\ doc = json
            ELSE WellFormed(last.path) =>
                   /\ (last.reply.k = "err") <=> (locs = <<>>)
                   /\ locs = <<>> =>
                         IsErr(last.reply, MsgMissingPath(last.path)) /\ doc = last.pre
                   /\ locs # <<>> =>
                         /\ IsOk(last.reply, RSimple("OK"))
                         /\ \A i \in 1..Len(locs) : GetAt(doc, locs[i]) = json

\* a SET at a path matching several nodes, all now the payload
C4_Witness ==
    /\ C4_Case
    /\ NonRoot(last.path)
    /\ Len(Locs(last.pre, last.path)) >= 2
    /\ IsOk(last.reply, RSimple("OK"))
    /\ doc # last.pre

Dels == {"DEL", "FORGET"}
ValueOpCmds == NumOps \cup {"STRAPPEND", "ARRAPPEND", "ARRINSERT", "ARRPOP", "ARRTRIM"}
WriteCmds == {"SET"} \cup Dels \cup ValueOpCmds

\* a step that is one of the module's commands, not a load from storage
IsCommand == last.cmd # "rdb_load"

\* by the commands, the key comes to hold a document only through SET at $
\* without XX, and loses it only through DEL/FORGET at $; the other writes
\* fail on an absent key with the missing-key error; no other write removes
\* the key
C5_Lifecycle ==
    /\ (IsCommand /\ last.pre = NoDoc /\ doc # NoDoc) =>
          last.cmd = "SET" /\ ~NonRoot(last.path) /\ last.arg.set_option # "AlreadyExists"
    /\ (last.pre # NoDoc /\ doc = NoDoc) => last.cmd \in Dels /\ ~NonRoot(last.path)
    /\ (last.cmd \in ValueOpCmds /\ last.pre = NoDoc) =>
          IsErr(last.reply, MsgNoKey) /\ doc = NoDoc
    /\ (/\ last.cmd \in WriteCmds
        /\ last.pre # NoDoc
        /\ ~(last.cmd \in Dels /\ ~NonRoot(last.path))) => doc # NoDoc

\* SET on an absent key with a non-root path
C5_SetAbsentNonRoot == last.cmd = "SET" /\ last.pre = NoDoc /\ NonRoot(last.path)

\* C5 as stated: C5_Lifecycle, and SET on an absent key with a non-root path
\* fails and leaves the key absent.
C5_AsStated ==
    /\ C5_Lifecycle
    /\ C5_SetAbsentNonRoot => last.reply.k = "err" /\ doc = NoDoc

\* C5 (amended): C5_Lifecycle, and SET on an absent key with a non-root path
\* leaves the key absent; it fails unless XX was given, and with XX it
\* replies null without an error.
C5_Amended ==
    /\ C5_Lifecycle
    /\ C5_SetAbsentNonRoot =>
          /\ doc = NoDoc
          /\ IF last.arg.set_option = "AlreadyExists"
             THEN IsOk(last.reply, RNil)
             ELSE last.reply.k = "err"

\* SET ... XX at a non-root path on an absent key replied null
C5_Witness ==
    /\ C5_SetAbsentNonRoot
    /\ last.arg.set_option = "AlreadyExists"
    /\ last.arg.value.wf
    /\ IsOk(last.reply, RNil)
    /\ doc = NoDoc

\* the number of non-null nodes among the matches
NonNull(tree, locs) == Cardinality({i \in 1..Len(locs) : ~is_null(GetAt(tree, locs[i]))})

\* the latest command called delete_path (json_del does so at non-root
\* paths only) with a well-formed path
C6_Case == last.op = "delete_path" /\ WellFormed(last.path)

\* C6: delete_path at a well-formed non-root path matching k non-null nodes
\* returns k, and delete_path with the same path on the resulting tree
\* returns 0.
C6_DeleteCounts ==
    C6_Case =>
        /\ IsOk(last.reply, RInt(NonNull(last.pre, Locs(last.pre, last.path))))
        /\ IsOk(delete_path(doc, last.path).res, 0)

\* a delete that matched several non-null nodes
C6_Witness ==
    /\ C6_Case
    /\ NonRoot(last.path)
    /\ last.reply.v.v >= 2
    /\ NonNull(last.pre, Locs(last.pre, last.path)) < Len(Locs(last.pre, last.path))

\* C7: after delete_path succeeded at a non-root path that matched a node,
\* to_string at the same path fails with the no-such-path error.
C7_DeletedIsGone ==
    (/\ last.op = "delete_path"
     /\ last.reply.k = "ok"
     /\ Locs(last.pre, last.path) # <<>>) => IsErr(to_string(doc, last.path), MsgNoPath)

\* NUMINCRBY or NUMMULTBY at a path matching a single node, a Number
C8_Case ==
    /\ last.cmd \in {"NUMINCRBY", "NUMMULTBY"}
    /\ last.op = "value_op"
    /\ Len(Locs(last.pre, last.path)) = 1
    /\ GetAt(last.pre, Locs(last.pre, last.path)[1]).t = "num"

\* C8: increment (a + b) and multiply (a * b) at a path matching a single
\* Number a with operand b store fn(a, b) in the node and reply with exactly
\* the value stored, which a read of the path then yields.
C8_NumOp ==
    C8_Case =>
        LET loc == Locs(last.pre, last.path)[1]
            a == GetAt(last.pre, loc).v.n
            b == last.arg.number
        IN  /\ last.reply.k = "ok"
            /\ last.reply.v.t = "value"
            /\ last.reply.v.v.t = "num"
            /\ last.reply.v.v.v.n = IF last.cmd = "NUMINCRBY" THEN a + b ELSE a * b
            /\ GetAt(doc, loc) = last.reply.v.v
            /\ IsOk(get_doc(doc, last.path), last.reply.v.v)

\* {"a":1,...}: NUMINCRBY $.a 2 stored and returned 3
C8_Witness ==
    /\ C8_Case
    /\ last.cmd = "NUMINCRBY"
    /\ last.path = <<"$", ".", "a">>
    /\ GetAt(last.pre, Locs(last.pre, last.path)[1]) = IntV(1)
    /\ last.arg.number = 2
    /\ last.reply.v.v.v.n = 3
    /\ IsOk(to_string(doc, last.path), "3.0")

\* the values of the JSON arguments of ARRAPPEND / ARRINSERT
ArgValues(jsons) == [i \in 1..Len(jsons) |-> jsons[i].value]

\* C9: ARRAPPEND v1..vn: every Array the path matches afterwards holds its
\* original elements followed by v1..vn, and when the path matches one node,
\* an Array, the reply is its new length, the original length + n.
C9_AppendAll ==
    (last.cmd = "ARRAPPEND" /\ last.op = "value_op") =>
        LET locs == Locs(last.pre, last.path)
            vs == ArgValues(last.arg.jsons)
        IN  /\ \A i \in 1..Len(locs) :
                  GetAt(last.pre, locs[i]).t = "arr" =>
                     GetAt(doc, locs[i]) = ArrV(GetAt(last.pre, locs[i]).v \o vs)
            /\ (Len(locs) = 1 /\ GetAt(last.pre, locs[1]).t = "arr") =>
                  IsOk(last.reply, RInt(Len(GetAt(last.pre, locs[1]).v) + Len(vs)))

\* C10: ARRINSERT index v1..vn: every Array of length L the path matches
\* fails with the out-of-bounds error and is unchanged iff abs(index) >= L,
\* and otherwise holds original[0..i), v1..vn, original[i..L) with i = index
\* if index >= 0 else L + index, index being the caller's for every match.
C10_InsertAll ==
    (last.cmd = "ARRINSERT" /\ last.op = "value_op" /\ WellFormed(last.path)) =>
        LET locs == IF NonRoot(last.path) THEN Locs(last.pre, last.path) ELSE << <<>> >>
            vs == ArgValues(last.arg.jsons)
            index == last.arg.index
        IN  \A n \in 1..Len(locs) :
               LET orig == GetAt(last.pre, locs[n])
                   L == Len(orig.v)
                   i == IF index >= 0 THEN index ELSE L + index
               IN  orig.t = "arr" =>
                      IF Abs(index) >= L
                      THEN /\ last.calls[n].k = "err"
                           /\ last.calls[n].msg = MsgOutOfBounds
                           /\ GetAt(doc, locs[n]) = orig
                      ELSE /\ last.calls[n].k = "ok"
                           /\ GetAt(doc, locs[n]) =
                                 ArrV(SubSeq(orig.v, 1, i) \o vs \o SubSeq(orig.v, i + 1, L))

\* the node a command with last.path acted on, when it is the only one
OneLoc == IF NonRoot(last.path) THEN Locs(last.pre, last.path)[1] ELSE <<>>
OneMatch == ~NonRoot(last.path) \/ Len(Locs(last.pre, last.path)) = 1

\* ARRPOP on a single node, an Array
C11_Case ==
    /\ last.cmd = "ARRPOP"
    /\ last.op = "value_op"
    /\ OneMatch
    /\ GetAt(last.pre, OneLoc).t = "arr"

\* C11: ARRPOP index on an Array of length L: without an index the last
\* element; an index >= L is clamped to L - 1; a negative one counts from
\* the end; it fails with the out-of-bounds error, the array unchanged,
\* exactly when the resulting index is < 0 or >= L; otherwise the element at
\* that index is removed and returned, the others keeping their order.
C11_ArrPop ==
    C11_Case =>
        LET orig == GetAt(last.pre, OneLoc).v
            L == Len(orig)
            clamped == IF last.arg.index >= L THEN L - 1 ELSE last.arg.index
            i == IF clamped < 0 THEN L + clamped ELSE clamped
        IN  IF i < 0 \/ i >= L
            THEN IsErr(last.reply, MsgOutOfBounds) /\ doc = last.pre
            ELSE /\ IsOk(last.reply, RStr(Serialize(orig[i + 1])))
                 /\ GetAt(doc, OneLoc) =
                       ArrV([j \in 1..(L - 1) |-> IF j <= i THEN orig[j] ELSE orig[j + 1]])

\* [1,2,3]: ARRPOP with index 3, past the end, removed and returned the 3
C11_Witness ==
    /\ C11_Case
    /\ GetAt(last.pre, OneLoc) = ArrV(<<IntV(1), IntV(2), IntV(3)>>)
    /\ last.arg.index = 3
    /\ IsOk(last.reply, RStr(Serialize(IntV(3))))
    /\ GetAt(doc, OneLoc) = ArrV(<<IntV(1), IntV(2)>>)

\* ARRPOP on an empty array failed
C11_EmptyWitness ==
    /\ C11_Case
    /\ GetAt(last.pre, OneLoc) = ArrV(<<>>)
    /\ IsErr(last.reply, MsgOutOfBounds)

\* ARRINDEX with a well-formed scalar on a node that is an Array
C12_Case ==
    /\ last.cmd = "ARRINDEX"
    /\ last.op = "arr_index"
    /\ last.arg.scalar.wf
    /\ get_doc(last.pre, last.path).k = "ok"
    /\ get_doc(last.pre, last.path).v.t = "arr"

\* C12: ARRINDEX scalar start end on an Array of any length replies with
\* the index of the first element equal to scalar at the positions
\* [start, end) clamped to the array, or -1 when there is none; with -1
\* whenever scalar is an array or an object; and it never aborts.
C12_ArrIndex ==
    C12_Case =>
        LET arr == get_doc(last.pre, last.path).v.v
            v == last.arg.scalar.value
            lo == Max(last.arg.start, 0)
            hi == Min(last.arg.end, Len(arr))
            hits == {i \in lo..(hi - 1) : arr[i + 1] = v}
        IN  /\ last.reply.k = "ok"
            /\ last.reply.v =
                  IF v.t \in {"arr", "obj"} \/ hits = {} THEN RInt(-1)
                  ELSE RInt(CHOOSE i \in hits : \A j \in hits : i <= j)

\* the commands of the operations on typed nodes and the variant each asks
\* of the node it is applied to
ReadCmds == {"STRLEN", "ARRLEN", "OBJLEN", "OBJKEYS", "ARRINDEX"}
Required(cmd) ==
    CASE cmd \in {"STRLEN", "STRAPPEND"} -> "str"
      [] cmd \in {"OBJLEN", "OBJKEYS"} -> "obj"
      [] cmd \in NumOps -> "num"
      [] OTHER -> "arr"

\* a wrong-type error about the node value
IsWrongType(r, value) ==
    /\ r.k = "err"
    /\ r.msg \in {MsgWrongTypeOfPath} \cup
                 {MsgWrongType(e, value) : e \in {"number", "string", "array", "object"}}

\* the latest command applied one of these operations to a node: the first
\* match of a read, the only match of a write
C13_Case ==
    \/ /\ last.cmd \in ReadCmds
       /\ last.op # "none"
       /\ get_doc(last.pre, last.path).k = "ok"
    \/ /\ last.cmd \in ValueOpCmds
       /\ last.op = "value_op"
       /\ OneMatch

\* the node it was applied to
C13_Node ==
    IF last.cmd \in ReadCmds THEN get_doc(last.pre, last.path).v
    ELSE GetAt(last.pre, OneLoc)

\* C13: each of STRLEN, ARRLEN, OBJLEN, OBJKEYS, ARRINDEX, NUMINCRBY /
\* NUMMULTBY / NUMPOWBY, STRAPPEND, ARRAPPEND, ARRINSERT, ARRPOP, ARRTRIM
\* applied to a node that is not of the variant it asks for fails with a
\* wrong-type error and leaves the tree unchanged.
C13_WrongType ==
    (C13_Case /\ C13_Node.t # Required(last.cmd)) =>
        IsWrongType(last.reply, C13_Node) /\ doc = last.pre

\* what the rules give for the raw path s
Normalized(s) ==
    IF s = <<".">> THEN <<"$">>
    ELSE IF Len(s) >= 1 /\ Head(s) = "." THEN <<"$">> \o s
    ELSE IF Len(s) >= 1 /\ Head(s) = "$" THEN s
    ELSE <<"$", ".">> \o s

\* C14: backward_path maps "." to "$", any other string starting with "."
\* to "$" + the string, a string starting with "$" to itself and every
\* other string s to "$." + s; the result begins with "$", and normalizing
\* it again returns it (last.arg is the raw path, last.path what one or two
\* applications returned).
C14_BackwardPath ==
    last.cmd = "backward_path" =>
        /\ last.path = Normalized(last.arg)
        /\ Head(last.path) = "$"
        /\ backward_path(last.path) = last.path

\* "." was normalized twice and is "$"
C14_Witness ==
    /\ last.cmd = "backward_path"
    /\ steps = 2
    /\ last.arg = <<".">>
    /\ last.path = <<"$">>

\* ARRTRIM on a single node, an Array
C15_Case ==
    /\ last.cmd = "ARRTRIM"
    /\ last.op = "value_op"
    /\ OneMatch
    /\ GetAt(last.pre, OneLoc).t = "arr"

\* C15: ARRTRIM start stop on an Array of any length L, 0 included,
\* completes without failure and replaces the node by the elements at the
\* positions start up to but excluding stop, start and stop having been
\* clamped into [0, L - 1] and start made <= stop; the result is not longer
\* than the original.
C15_ArrTrim ==
    C15_Case =>
        LET orig == GetAt(last.pre, OneLoc).v
            L == Len(orig)
            stop == Max(0, Min(last.arg.stop, L - 1))
            start == Min(stop, Max(0, last.arg.start))
            kept == ArrV(SubSeq(orig, start + 1, stop))
        IN  /\ IsOk(last.reply, RVal(kept))
            /\ GetAt(doc, OneLoc) = kept
            /\ Len(GetAt(doc, OneLoc).v) <= L

\* a command built on value_op, on an existing document, with a well-formed
\* non-root path that matches no node
C16_Case ==
    /\ last.cmd \in ValueOpCmds
    /\ last.op = "value_op"
    /\ NonRoot(last.path)
    /\ WellFormed(last.path)
    /\ Locs(last.pre, last.path) = <<>>

\* C16: such a command does not fail: the transform is never called, the
\* tree is unchanged and the reply is the Null value_op returned (the text
\* "null" for ARRPOP), or the length 0 for STRAPPEND and ARRAPPEND.
C16_NoMatchSucceeds ==
    C16_Case =>
        /\ last.calls = <<>>
        /\ doc = last.pre
        /\ IsOk(last.reply,
                CASE last.cmd \in {"STRAPPEND", "ARRAPPEND"} -> RInt(0)
                  [] last.cmd = "ARRPOP" -> RStr(Serialize(NullV))
                  [] OTHER -> RVal(NullV))

\* {"a":1,"b":[1,2,3]}: STRAPPEND at $.c, which is not there, replied 0
C16_Witness ==
    /\ C16_Case
    /\ last.cmd = "STRAPPEND"
    /\ last.pre = DocAB
    /\ last.path = <<"$", ".", "c">>
    /\ IsOk(last.reply, RInt(0))
    /\ doc = DocAB

====
